---------------------------- MODULE Spec2Model ----------------------------
(***************************************************************************)
(* Model of pack_circles (src/q6/generate_chart.py, lines 62-126), the     *)
(* greedy circle packer.                                                   *)
(*                                                                         *)
(* Numbers.  The code computes in IEEE doubles; the model computes in      *)
(* fixed point.  A length is an integer number of units, Scale units to    *)
(* 1.0, and every product with a cosine, a sine or a decimal factor is     *)
(* rounded to the nearest unit, as a double operation rounds to the        *)
(* nearest double.  The cosines are tabulated to 1/TrigScale.  The code's  *)
(* overlap tolerance (1e-6, far above a double's rounding error and far    *)
(* below a radius) is Eps = one unit here: above the model's rounding      *)
(* error of a candidate centre (at most 0.71 unit) and far below a radius. *)
(* TLC's integers are 32 bits wide, so products are taken in parts that    *)
(* stay in range; the values are those of unbounded integers.              *)
(*                                                                         *)
(* Indices.  Python lists are 0-based, sequences here are 1-based: the     *)
(* code's circle i is circle i + 1 here.                                   *)
(***************************************************************************)
EXTENDS Integers, Sequences, FiniteSets

VARIABLES
    radii,      \* the argument of the call in progress (units)
    positions,  \* the list the call builds: a sequence of <<x, y>> (units)
    i,          \* the loop variable of "for i in range(1, len(radii))", 1-based
    pc,         \* "idle" | "start" | "loop" | "done": where the call stands
    stage,      \* per placed circle, the branch that appended its position
    tests,      \* per placed circle, the number of candidates tested for it
    prev,       \* the list returned by the previous call
    again       \* TRUE once the caller has called a second time

vars == <<radii, positions, i, pc, stage, tests, prev, again>>

---------------------------------------------------------------------------
(* Bounds of the model. *)

\* longest input sequence
MaxLen == 4

\* largest radius of an input, in whole lengths (1.0 = Scale units)
MaxRadius == 2

---------------------------------------------------------------------------
(* Fixed-point arithmetic standing for the code's doubles. *)

\* units per 1.0
Scale == 1000

\* the cosine table holds round(TrigScale * cos)
TrigScale == 100000

\* the tolerance of the overlap test, "- 1e-6", in units
Eps == 1

\* a / b rounded to the nearest integer (b > 0)
RoundDiv(a, b) == (2 * a + b) \div (2 * b)

\* |a|
Abs(a) == IF a < 0 THEN 0 - a ELSE a

\* round(TrigScale * cos(d degrees)) for d = 0, 2, ..., 90
QuarterCos ==
    << 100000, 99939, 99756, 99452, 99027, 98481, 97815, 97030, 96126, 95106,
       93969, 92718, 91355, 89879, 88295, 86603, 84805, 82904, 80902, 78801,
       76604, 74314, 71934, 69466, 66913, 64279, 61566, 58779, 55919, 52992,
       50000, 46947, 43837, 40674, 37461, 34202, 30902, 27564, 24192, 20791,
       17365, 13917, 10453, 6976, 3490, 0 >>

\* math.cos of an even number of degrees, times TrigScale
Cos(deg) ==
    LET d == deg % 360
    IN  IF d <= 90 THEN QuarterCos[d \div 2 + 1]
        ELSE IF d <= 180 THEN 0 - QuarterCos[(180 - d) \div 2 + 1]
        ELSE IF d <= 270 THEN 0 - QuarterCos[(d - 180) \div 2 + 1]
        ELSE QuarterCos[(360 - d) \div 2 + 1]

\* math.sin of an even number of degrees, times TrigScale
Sin(deg) == Cos(deg + 270)

\* dist * c / TrigScale rounded to the nearest unit, for c = Cos or Sin: the
\* product dist * math.cos(theta).  dist = 1000 * q + rem and q * c =
\* 100 * a1 + a0 keep every intermediate value within 32 bits.
MulTrig(dist, c) ==
    LET q   == dist \div 1000
        rem == dist % 1000
        a1  == (q * c) \div 100
        a0  == (q * c) % 100
    IN  a1 + RoundDiv(a0 * 1000 + rem * c, TrigScale)

---------------------------------------------------------------------------
(* The constants of pack_circles. *)

\* np.linspace(0, 2 * math.pi, 60, endpoint=False)
NumAngles == 60

\* np.linspace(0, 2 * math.pi, 90, endpoint=False)
NumRingAngles == 90

\* while not placed and attempt < 200
AttemptCap == 200

\* Mutation of TangentAngle: the sampling starts one step late.
TangentAngleShifted(t) == (360 \div NumAngles) * (t + 1)

\* the t-th sampled angle of the tangent search, in degrees (t = 0 .. 59)
TangentAngle(t) == (360 \div NumAngles) * t

\* the t-th sampled angle of the expanding fallback, in degrees (t = 0 .. 89)
RingAngle(t) == (360 \div NumRingAngles) * t

\* max(radii)
RECURSIVE MaxOf(_)
MaxOf(rad) ==
    IF Len(rad) = 1 THEN rad[1]
    ELSE LET m == MaxOf(Tail(rad))
         IN  IF rad[1] >= m THEN rad[1] ELSE m

\* Mutation of TangentDist: the base circle's radius is left out.
TangentDistNoBase(r, rj) == r

\* dist = r + rj
TangentDist(r, rj) == r + rj

\* (xi, yi) of the tangent search: at dist from (xj, yj), at the t-th angle
TangentCand(pj, dist, t) ==
    << pj[1] + MulTrig(dist, Cos(TangentAngle(t))),
       pj[2] + MulTrig(dist, Sin(TangentAngle(t))) >>

\* dist = (max(radii) + r) * (1 + attempt * 0.05)
RingDist(rad, r, attempt) == RoundDiv((MaxOf(rad) + r) * (100 + 5 * attempt), 100)

\* (xi, yi) of the expanding fallback: at RingDist from the origin
RingCand(rad, r, attempt, t) ==
    << MulTrig(RingDist(rad, r, attempt), Cos(RingAngle(t))),
       MulTrig(RingDist(rad, r, attempt), Sin(RingAngle(t))) >>

\* Mutation of TooClose: the tolerance is added to the limit instead of
\* subtracted, d < (r + rk) + 1e-6.
TooCloseTolerancePlus(c, pk, r, rk) ==
    LET lim == (r + rk) + Eps
        dx  == c[1] - pk[1]
        dy  == c[2] - pk[2]
    IN  /\ lim > 0
        /\ Abs(dx) < lim
        /\ Abs(dy) < lim
        /\ dx * dx + dy * dy < lim * lim

\* d < (r + rk) - 1e-6, with d = math.hypot(xi - xk, yi - yk) >= 0: the
\* squares are compared, and only when both legs are shorter than the limit
\* (otherwise d is not)
TooClose(c, pk, r, rk) ==
    LET lim == (r + rk) - Eps
        dx  == c[1] - pk[1]
        dy  == c[2] - pk[2]
    IN  /\ lim > 0
        /\ Abs(dx) < lim
        /\ Abs(dy) < lim
        /\ dx * dx + dy * dy < lim * lim

\* Mutation of Overlaps: the candidate is tested against the first placed
\* circle only.
OverlapsFirstOnly(c, pos, rad, r) ==
    \E k \in 1 .. 1 : TooClose(c, pos[k], r, rad[k])

\* not ok: the candidate c is too close to one of the placed circles
Overlaps(c, pos, rad, r) ==
    \E k \in 1 .. Len(pos) : TooClose(c, pos[k], r, rad[k])

\* Mutation of TangentScan: the scan keeps going after a fit and the last
\* candidate that overlaps nothing wins.
TangentScanLastFit(pos, rad, r, idx) ==
    LET all  == NumAngles * Len(pos)
        free == { e \in idx .. all - 1 :
                    ~\E k \in 1 .. Len(pos) :
                        TooClose(TangentCand(pos[e \div NumAngles + 1],
                                             r + rad[e \div NumAngles + 1],
                                             e % NumAngles),
                                 pos[k], r, rad[k]) }
    IN  IF free = {} THEN all
        ELSE CHOOSE e \in free : \A u \in free : u <= e

\* The two nested loops of the tangent search, flattened: candidate idx is
\* angle idx % 60 around placed circle idx \div 60 (0-based).  The value is
\* the index of the first candidate that overlaps nothing, or 60 * len when
\* every candidate overlaps.
RECURSIVE TangentScan(_, _, _, _)
TangentScan(pos, rad, r, idx) ==
    IF idx >= NumAngles * Len(pos) THEN idx
    ELSE LET j == idx \div NumAngles + 1
             c == TangentCand(pos[j], TangentDist(r, rad[j]), idx % NumAngles)
         IN  IF ~Overlaps(c, pos, rad, r) THEN idx
             ELSE TangentScan(pos, rad, r, idx + 1)

\* The while loop of the fallback from `attempt` on: its angles are scanned
\* in ascending order, and the loop ends at the first candidate that
\* overlaps nothing or when attempt reaches the cap.
RECURSIVE RingScan(_, _, _, _)
RingScan(pos, rad, r, attempt) ==
    IF attempt >= AttemptCap THEN [found |-> FALSE, attempt |-> attempt, t |-> 0]
    ELSE LET free == { t \in 0 .. NumRingAngles - 1 :
                         ~Overlaps(RingCand(rad, r, attempt, t), pos, rad, r) }
         IN  IF free = {} THEN RingScan(pos, rad, r, attempt + 1)
             ELSE [found |-> TRUE, attempt |-> attempt,
                   t |-> CHOOSE t \in free : \A u \in free : t <= u]

\* (len(positions) * (r * 2.5), 0.0)
LastResort(pos, r) == << Len(pos) * RoundDiv(r * 5, 2), 0 >>

\* Mutation of CurrentRadius: the radius of the circle before.
CurrentRadiusOffByOne(rad, n) == rad[n - 1]

\* r = radii[i]
CurrentRadius(rad, n) == rad[n]

\* Mutation of PlaceCircle: the expanding fallback runs before the tangent
\* search.
PlaceCircleRingFirst(pos, rad, n) ==
    LET r   == rad[n]
        all == NumAngles * Len(pos)
        f   == RingScan(pos, rad, r, 1)
    IN  IF f.found
        THEN [at    |-> RingCand(rad, r, f.attempt, f.t),
              stage |-> "fallback",
              tests |-> (f.attempt - 1) * NumRingAngles + f.t + 1]
        ELSE LET idx == TangentScan(pos, rad, r, 0)
             IN  IF idx < all
                 THEN [at    |-> TangentCand(pos[idx \div NumAngles + 1],
                                             r + rad[idx \div NumAngles + 1],
                                             idx % NumAngles),
                       stage |-> "tangent",
                       tests |-> (AttemptCap - 1) * NumRingAngles + idx + 1]
                 ELSE [at    |-> LastResort(pos, r),
                       stage |-> "last",
                       tests |-> all + (AttemptCap - 1) * NumRingAngles]

\* One pass of the body of "for i in range(1, len(radii))": the position
\* appended for circle n, the branch that appended it, and the candidates
\* tested on the way.
PlaceCircle(pos, rad, n) ==
    LET r   == CurrentRadius(rad, n)
        all == NumAngles * Len(pos)
        idx == TangentScan(pos, rad, r, 0)
    IN  IF idx < all
        THEN [at    |-> TangentCand(pos[idx \div NumAngles + 1],
                                    TangentDist(r, rad[idx \div NumAngles + 1]),
                                    idx % NumAngles),
              stage |-> "tangent",
              tests |-> idx + 1]
        ELSE LET f == RingScan(pos, rad, r, 1)
             IN  IF f.found
                 THEN [at    |-> RingCand(rad, r, f.attempt, f.t),
                       stage |-> "fallback",
                       tests |-> all + (f.attempt - 1) * NumRingAngles + f.t + 1]
                 ELSE [at    |-> LastResort(pos, r),
                       stage |-> "last",
                       tests |-> all + (AttemptCap - 1) * NumRingAngles]

\* Mutation of FreshPositions: the list of the call before is kept.
StalePositions == positions

\* positions = []
FreshPositions == << >>

\* Mutation of LoopDone: the loop expects one more circle than there is.
LoopDoneOneLate(n, rad) == n > Len(rad) + 1

\* range(1, len(radii)) is exhausted
LoopDone(n, rad) == n > Len(rad)

---------------------------------------------------------------------------
(* The inputs of the model. *)

\* the valid radii an input is made of: 0, 1.0, ..., MaxRadius
RadiusValues == { Scale * v : v \in 0 .. MaxRadius }

\* a negative radius, -1.0: the code accepts it like any other number
NegRadius == 0 - Scale

\* the sequences over S of length at most n
RECURSIVE SeqsUpTo(_, _)
SeqsUpTo(S, n) ==
    IF n = 0 THEN { << >> }
    ELSE LET shorter == SeqsUpTo(S, n - 1)
         IN  shorter \cup { Append(s, v) : s \in { q \in shorter : Len(q) = n - 1 }, v \in S }

\* the arguments of a call: every sequence of valid radii up to MaxLen, and
\* the shorter sequences that also hold the negative radius
Inputs ==
    SeqsUpTo(RadiusValues, MaxLen)
        \cup SeqsUpTo(RadiusValues \cup { NegRadius }, MaxLen - 2)

---------------------------------------------------------------------------
(* The state machine. *)

Init ==
    /\ radii = << >>
    /\ positions = << >>
    /\ i = 1
    /\ pc = "idle"
    /\ stage = << >>
    /\ tests = << >>
    /\ prev = << >>
    /\ again = FALSE

\* the caller calls pack_circles(inp)
Call ==
    /\ pc = "idle"
    /\ \E inp \in Inputs : radii' = inp
    /\ positions' = FreshPositions
    /\ stage' = << >>
    /\ tests' = << >>
    /\ i' = 1
    /\ pc' = "start"
    /\ UNCHANGED <<prev, again>>

\* the caller calls pack_circles a second time, with the same argument
CallAgain ==
    /\ pc = "done"
    /\ ~again
    /\ again' = TRUE
    /\ prev' = positions
    /\ positions' = FreshPositions
    /\ stage' = << >>
    /\ tests' = << >>
    /\ i' = 1
    /\ pc' = "start"
    /\ UNCHANGED radii

\* if not radii: return positions
ReturnEmpty ==
    /\ pc = "start"
    /\ radii = << >>
    /\ pc' = "done"
    /\ UNCHANGED <<radii, positions, i, stage, tests, prev, again>>

\* positions.append((0.0, 0.0))
PlaceFirst ==
    /\ pc = "start"
    /\ radii # << >>
    /\ positions' = Append(positions, <<0, 0>>)
    /\ stage' = Append(stage, "origin")
    /\ tests' = Append(tests, 0)
    /\ i' = 2
    /\ pc' = "loop"
    /\ UNCHANGED <<radii, prev, again>>

\* range(1, len(radii)) yields another i
PlaceNextEnabled == pc = "loop" /\ i <= Len(radii)

\* Mutation of PlaceNext: the new position is put in front of the list, so
\* the positions recorded earlier move one place down.
PlaceNextAtFront ==
    /\ PlaceNextEnabled
    /\ LET p == PlaceCircle(positions, radii, i)
       IN  /\ positions' = <<p.at>> \o positions
           /\ stage' = Append(stage, p.stage)
           /\ tests' = Append(tests, p.tests)
    /\ i' = i + 1
    /\ UNCHANGED <<radii, pc, prev, again>>

\* one pass of the for loop: the three stages for circle i
PlaceNext ==
    /\ PlaceNextEnabled
    /\ LET p == PlaceCircle(positions, radii, i)
       IN  /\ positions' = Append(positions, p.at)
           /\ stage' = Append(stage, p.stage)
           /\ tests' = Append(tests, p.tests)
    /\ i' = i + 1
    /\ UNCHANGED <<radii, pc, prev, again>>

\* return positions
Return ==
    /\ pc = "loop"
    /\ LoopDone(i, radii)
    /\ pc' = "done"
    /\ UNCHANGED <<radii, positions, i, stage, tests, prev, again>>

Next == Call \/ CallAgain \/ ReturnEmpty \/ PlaceFirst \/ PlaceNext \/ Return

Spec == Init /\ [][Next]_vars

\* the steps of pack_circles other than a pass of the loop
RunOutsideLoop == ReturnEmpty \/ PlaceFirst \/ Return

\* A call, once made, keeps executing: the code is sequential and nothing
\* suspends it.  The last conjunct is WF_vars(PlaceNext) with ENABLED
\* written out: PlaceNext is enabled exactly when PlaceNextEnabled holds,
\* and every PlaceNext step changes i.
FairSpec ==
    /\ Init /\ [][Next]_vars
    /\ WF_vars(RunOutsideLoop)
    /\ ([]<>(~PlaceNextEnabled) \/ []<><<PlaceNext>>_vars)

---------------------------------------------------------------------------
(* Vocabulary of the properties.  Distances are judged here by their own   *)
(* definitions, not by the packer's overlap test.                          *)

\* every radius is non-negative (all the model's numbers are finite)
Valid(rad) == \A k \in 1 .. Len(rad) : rad[k] >= 0

\* the distance between p and q is at least s - 1e-6
Apart(p, q, s) ==
    \/ s - Eps <= 0
    \/ Abs(p[1] - q[1]) >= s - Eps
    \/ Abs(p[2] - q[2]) >= s - Eps
    \/ (p[1] - q[1]) * (p[1] - q[1]) + (p[2] - q[2]) * (p[2] - q[2])
           >= (s - Eps) * (s - Eps)

\* the circles placed before circle n
Before(n) == SubSeq(positions, 1, n - 1)

\* a circle of radius r centred at c overlaps none of the circles before n
Free(c, r, n) ==
    \A k \in 1 .. n - 1 : Apart(c, positions[k], r + radii[k])

\* the e-th candidate of the tangent search for circle n (e = 0, 1, ...):
\* angle e % 60 around the (e \div 60)-th placed circle
NthTangentCand(n, e) ==
    TangentCand(positions[e \div NumAngles + 1],
                radii[n] + radii[e \div NumAngles + 1], e % NumAngles)

\* the circles after the first that have been placed
Later == 2 .. Len(positions)

---------------------------------------------------------------------------
(* C1 *)

\* C1: for an input of non-negative radii, at every point of the run every
\* two distinct placed circles j, k have their centres at least
\* radii[j] + radii[k] - 1e-6 apart.
C1_NonOverlap ==
    Valid(radii) =>
        \A j, k \in 1 .. Len(positions) :
            j # k => Apart(positions[j], positions[k], radii[j] + radii[k])

\* three circles of positive radius are placed, one after rejected candidates
C1_Witness ==
    /\ pc = "done"
    /\ Len(positions) = 3
    /\ \A k \in 1 .. 3 : radii[k] > 0
    /\ tests[3] > 1

---------------------------------------------------------------------------
(* C2 *)

\* the distance between p and q is |s|, to within one unit of rounding
AtDistance(p, q, s) ==
    LET dx == p[1] - q[1]
        dy == p[2] - q[2]
        a  == Abs(s)
    IN  /\ Abs(dx) <= a + 1
        /\ Abs(dy) <= a + 1
        /\ dx * dx + dy * dy <= (a + 1) * (a + 1)
        /\ (a = 0 \/ dx * dx + dy * dy >= (a - 1) * (a - 1))

\* C2: pack_circles returns exactly one position per input radius, the
\* empty list for the empty input, and position n is the one computed for
\* radii[n]: the first is the origin and a tangent placement lies at
\* distance radii[n] + radii[j] from an earlier circle j.  The list never
\* holds more positions than there are radii.
C2_OnePositionPerRadius ==
    /\ Len(positions) <= Len(radii)
    /\ pc = "done" => Len(positions) = Len(radii)
    /\ (pc = "done" /\ radii = << >>) => positions = << >>
    /\ \A n \in Later :
          stage[n] = "tangent" =>
              \E j \in 1 .. n - 1 :
                  AtDistance(positions[n], positions[j], radii[n] + radii[j])

\* a call on three different radii, in ascending order, has returned
C2_Witness ==
    /\ pc = "done"
    /\ Len(radii) = 3
    /\ Len(positions) = 3
    /\ radii[1] < radii[2]
    /\ radii[2] < radii[3]

---------------------------------------------------------------------------
(* C3 *)

\* C3: when a radius of the input is negative, no circle is placed and the
\* call does not return a position list.
C3_InvalidInputRejected ==
    (pc # "idle" /\ ~Valid(radii)) => (positions = << >> /\ pc # "done")

---------------------------------------------------------------------------
(* C4 *)

\* C4: every call returns, and the number of candidates tested for circle n
\* is bounded: at most 60 per circle placed before it in the tangent search
\* and at most 199 rings of 90 in the expanding fallback.
C4_Terminates ==
    /\ (pc = "start") ~> (pc = "done")
    /\ [](\A n \in 1 .. Len(tests) :
             tests[n] <= NumAngles * (n - 1) + (AttemptCap - 1) * NumRingAngles)

\* a call on three radii has returned after testing candidates for each of
\* the two later circles
C4_Witness ==
    /\ pc = "done"
    /\ Len(tests) = 3
    /\ tests[2] >= 1
    /\ tests[3] > 1

---------------------------------------------------------------------------
(* C5 *)

---------------------------------------------------------------------------
(* C6 *)

\* C6: the first circle is placed at the origin, and for an input of two
\* radii a, b the second is placed at (a + b, 0), the tangent candidate of
\* angle 0, at distance exactly a + b from the origin when a + b >= 0.
C6_FirstAndSecond ==
    /\ Len(positions) >= 1 => positions[1] = <<0, 0>>
    /\ (Len(radii) = 2 /\ Len(positions) = 2) =>
          /\ positions[2] = <<radii[1] + radii[2], 0>>
          /\ stage[2] = "tangent"
          /\ tests[2] = 1
          /\ Valid(radii) =>
                positions[2][1] * positions[2][1] + positions[2][2] * positions[2][2]
                    = (radii[1] + radii[2]) * (radii[1] + radii[2])

\* two equal circles have been packed: the second is one diameter to the right
C6_Witness ==
    /\ pc = "done"
    /\ radii = <<Scale, Scale>>
    /\ positions = << <<0, 0>>, <<2 * Scale, 0>> >>

---------------------------------------------------------------------------
(* C8 *)

\* C8: packing [r, 0] with r > 0 returns two positions; the circle of radius
\* 0 is placed by the tangent search, at distance >= r - 1e-6 from the
\* centre of the first circle.
C8_ZeroRadius ==
    (pc = "done" /\ Len(radii) = 2 /\ radii[1] > 0 /\ radii[2] = 0) =>
        /\ Len(positions) = 2
        /\ stage[2] = "tangent"
        /\ Apart(positions[2], positions[1], radii[1])

\* [r, 0] has been packed
C8_Witness ==
    /\ pc = "done"
    /\ Len(radii) = 2
    /\ radii[1] > 0
    /\ radii[2] = 0
    /\ Len(positions) = 2

---------------------------------------------------------------------------
(* C9 *)

\* C9: a circle placed by the tangent search sits on the first free
\* candidate in the order (placed base circle, angle ascending from 0):
\* that candidate overlaps no placed circle, every candidate before it
\* overlaps one, and the candidates tested are exactly those up to it.
C9_FirstFit ==
    \A n \in Later :
        stage[n] = "tangent" =>
            LET e == tests[n] - 1
            IN  /\ e \in 0 .. NumAngles * (n - 1) - 1
                /\ positions[n] = NthTangentCand(n, e)
                /\ Free(NthTangentCand(n, e), radii[n], n)
                /\ \A b \in 0 .. e - 1 : ~Free(NthTangentCand(n, b), radii[n], n)

\* a circle was placed around the second placed circle, every candidate
\* around the first one having overlapped
C9_Witness ==
    /\ Valid(radii)
    /\ \E n \in Later : stage[n] = "tangent" /\ tests[n] > NumAngles

---------------------------------------------------------------------------
(* C10 *)

\* every candidate of the tangent search for circle n overlaps a placed circle
AllTangentBlocked(n) ==
    \A e \in 0 .. NumAngles * (n - 1) - 1 :
        ~Free(NthTangentCand(n, e), radii[n], n)

\* the candidate of ring attempt a and angle t for circle n: at distance
\* (max of all input radii + radii[n]) * (1 + 0.05 * a) from the origin
NthRingCand(n, a, t) == RingCand(radii, radii[n], a, t)

\* every ring candidate for circle n before (a, t), in the order of the
\* scan, overlaps a placed circle
RingBlockedBefore(n, a, t) ==
    /\ \A b \in 1 .. a - 1 : \A u \in 0 .. NumRingAngles - 1 :
          ~Free(NthRingCand(n, b, u), radii[n], n)
    /\ \A u \in 0 .. t - 1 : ~Free(NthRingCand(n, a, u), radii[n], n)

---------------------------------------------------------------------------
(* C11 *)

\* a step of a running call keeps the radii and the recorded positions, and
\* appends at most one position, exactly when the loop variable moves on
WriteOnceStep ==
    pc \in {"start", "loop"} =>
        /\ radii' = radii
        /\ Len(positions') >= Len(positions)
        /\ Len(positions') <= Len(positions) + 1
        /\ SubSeq(positions', 1, Len(positions)) = positions
        /\ (Len(positions') = Len(positions) + 1) <=> (i' # i)

\* C11: while a call runs, a step leaves the input radii and every position
\* already recorded unchanged, and records at most one new position, at the
\* end of the list and exactly when the loop moves on to the next circle:
\* each position is assigned once, and the list is at every point a prefix
\* of the list returned.
C11_WriteOnce == [][WriteOnceStep]_vars

\* the run stands before its fourth circle with three positions recorded
C11_Witness ==
    /\ pc = "loop"
    /\ i = 4
    /\ Len(radii) = 4
    /\ Len(positions) = 3

---------------------------------------------------------------------------
(* C12 *)

\* placed circle j reaches furthest to the right: x_j + radii[j] is maximal
Rightmost(j) ==
    \A k \in 1 .. Len(positions) :
        positions[j][1] + radii[j] >= positions[k][1] + radii[k]

\* C12: for an input of non-negative radii every circle after the first is
\* placed by the tangent search, so neither the expanding fallback nor the
\* last resort records a position; and whenever a circle is still to be
\* placed, the angle-0 tangent candidate around the placed circle that
\* reaches furthest to the right overlaps no placed circle: it lies at least
\* radii[i] + radii[k] to the right of the centre of every placed circle k.
C12_TangentAlwaysSucceeds ==
    Valid(radii) =>
        /\ \A n \in Later : stage[n] = "tangent"
        /\ PlaceNextEnabled =>
              \E j \in 1 .. Len(positions) :
                  /\ Rightmost(j)
                  /\ Free(TangentCand(positions[j], radii[i] + radii[j], 0),
                          radii[i], i)
                  /\ \A k \in 1 .. Len(positions) :
                        TangentCand(positions[j], radii[i] + radii[j], 0)[1]
                            - positions[k][1] >= radii[i] + radii[k]

\* a circle of positive radius is still to be placed beside three placed
\* ones, the rightmost of which is not the first
C12_Witness ==
    /\ Valid(radii)
    /\ PlaceNextEnabled
    /\ Len(positions) = 3
    /\ radii[i] > 0
    /\ ~Rightmost(1)

=============================================================================
